---- MODULE Spec2Model ----
(***************************************************************************)
(* A model of the planner/actor core of computer_use_ootb:                 *)
(*   - the History Shaper: _message_filter_callback and                    *)
(*     _maybe_filter_to_n_most_recent_images (api_vlm_planner.py)          *)
(*   - the Planner: APIVLMPlanner.__init__ and APIVLMPlanner.__call__      *)
(*                                                                         *)
(* Python values are tagged records: the field k is the Python type        *)
(* ("str", "list", "dict", "TextBlock", "NoneType"), so that isinstance    *)
(* tests of the source become tests of k.                                  *)
(***************************************************************************)
EXTENDS Integers, Sequences, FiniteSets, TLC

VARIABLES
    messages,               \* the message list an operation works on (mutated in place)
    before,                 \* the message list as it was when each call so far started
    images_to_keep,         \* argument of the last prune call
    min_removal_threshold,  \* argument of the last prune call
    prune_calls,            \* prune calls made on `messages`: 0, 1, or 2 (capped)
    filtered,               \* what each filter call on `messages` returned, in call order
    refiltered,             \* what the filter returned on its own last output, if called
    planner,                \* the APIVLMPlanner instance, if one was constructed
    init_call,              \* the last APIVLMPlanner(...) call: its model argument, its error
    turn,                   \* what the last APIVLMPlanner.__call__ did
    calls,                  \* number of __call__ calls on the instance (capped)
    actor,                  \* the ShowUIActorAPI instance, if one was constructed
    act,                    \* what the last ShowUIActorAPI.__call__ did
    act_log,                \* the outcome of every __call__ on the instance, in call order
    session,                \* the task the instance is serving, and its calls in that task
    app,                    \* process_input: where the generator is, what it yielded and read
    state,                  \* the session's state dict (gr.State), key by key
    loop_args,              \* what the last process_input passed to sampling_loop_sync
    ui_events               \* number of settings handlers run (capped)

pruneVars == <<images_to_keep, min_removal_threshold, prune_calls>>
filterVars == <<filtered, refiltered>>
plannerVars == <<planner, init_call, turn, calls>>
actorVars == <<actor, act, act_log, session>>
uiVars == <<state, loop_args, ui_events>>
vars ==
    <<messages, before, pruneVars, filterVars, plannerVars, actorVars, app,
      uiVars>>

\* ------------------------------------------------------------------ bounds

MaxNodes == 6        \* messages + content items + tool-result items in a list
MaxKeep == 2         \* images_to_keep ranges over 0..MaxKeep
MaxThreshold == 2    \* min_removal_threshold ranges over 1..MaxThreshold
MaxLog == 3          \* entries of a conversation log
MaxKeyLen == 3       \* characters of an SSH connection string
MaxUsage == 2        \* token count an adapter call reports: 0 or MaxUsage
MaxCalls == 2        \* planner turns followed on one instance

\* ------------------------------------------------------------ Python values

PyStr(s) == [k |-> "str", s |-> s]
PyList(items) == [k |-> "list", items |-> items]
Absent == [k |-> "absent"]          \* a key the dict does not have

IsList(v) == v.k = "list"
IsDict(v) == v.k = "dict"

\* dict.get("content", []) iterated: a list gives its items, a missing key the
\* default [], a str its characters (none of which is a dict).
IterContent(c) == IF IsList(c) THEN c.items ELSE <<>>

\* A content item of a tool result: {"type": t, ...}, identified by id.
Item(t, id) == [k |-> "dict", type |-> t, id |-> id]
\* A tool-result block {"type": "tool_result", "content": c}.
ToolResult(c, id) == [k |-> "dict", type |-> "tool_result", id |-> id, content |-> c]
\* A message {"role": r, "content": c}.
Message(r, c) == [k |-> "dict", role |-> r, content |-> c]

IsImage(x) == IsDict(x) /\ x.type = "image"
IsToolResult(x) == IsDict(x) /\ x.type = "tool_result"

RECURSIVE SumSeq(_)
SumSeq(s) == IF s = <<>> THEN 0 ELSE Head(s) + SumSeq(Tail(s))

RECURSIVE Flatten(_)
Flatten(ss) == IF ss = <<>> THEN <<>> ELSE Head(ss) \o Flatten(Tail(ss))

\* --------------------------------- _maybe_filter_to_n_most_recent_images

\* The tool_result blocks of the list, in message order then content order.
ToolResultBlocks(msgs) ==
    Flatten([i \in 1..Len(msgs) |->
        SelectSeq(IterContent(msgs[i].content), IsToolResult)])

TotalImages(msgs) ==
    SumSeq([i \in 1..Len(ToolResultBlocks(msgs)) |->
        Len(SelectSeq(IterContent(ToolResultBlocks(msgs)[i].content), IsImage))])

\* A slip in the chunk rounding: no rounding at all.
ImagesToRemoveNoChunk(total, keep, threshold) == total - keep

\* A slip in the chunk rounding: // written for %.
ImagesToRemoveFloorDiv(total, keep, threshold) ==
    LET d == total - keep IN d - (d \div threshold)

\* images_to_remove after the chunk rounding; Python's % has the sign of the
\* divisor, as TLA+'s % has for a positive divisor.
ImagesToRemove(total, keep, threshold) ==
    LET d == total - keep IN d - (d % threshold)

RECURSIVE Reverse(_)
Reverse(s) == IF s = <<>> THEN <<>> ELSE Reverse(Tail(s)) \o <<Head(s)>>

\* A slip in the inner loop: the type test forgotten, any item is dropped.
RECURSIVE FilterContentAny(_, _)
FilterContentAny(items, budget) ==
    IF items = <<>> THEN [new |-> <<>>, left |-> budget]
    ELSE IF budget > 0
         THEN FilterContentAny(Tail(items), budget - 1)
         ELSE LET r == FilterContentAny(Tail(items), budget)
              IN [new |-> <<Head(items)>> \o r.new, left |-> r.left]

\* A slip in the inner loop: the content is scanned from its end, so that the
\* newest images of a tool result go first.
RECURSIVE FilterContentFwd(_, _)
FilterContentFwd(items, budget) ==
    IF items = <<>> THEN [new |-> <<>>, left |-> budget]
    ELSE IF Head(items).k = "dict" /\ Head(items).type = "image" /\ budget > 0
         THEN FilterContentFwd(Tail(items), budget - 1)
         ELSE LET r == FilterContentFwd(Tail(items), budget)
              IN [new |-> <<Head(items)>> \o r.new, left |-> r.left]

FilterContentNewestFirst(items, budget) ==
    LET r == FilterContentFwd(Reverse(items), budget)
    IN [new |-> Reverse(r.new), left |-> r.left]

\* The inner loop over one tool result's content: drops images while the
\* budget lasts. Gives the new content and the budget left.
RECURSIVE FilterContent(_, _)
FilterContent(items, budget) ==
    IF items = <<>> THEN [new |-> <<>>, left |-> budget]
    ELSE IF IsImage(Head(items)) /\ budget > 0
         THEN FilterContent(Tail(items), budget - 1)
         ELSE LET r == FilterContent(Tail(items), budget)
              IN [new |-> <<Head(items)>> \o r.new, left |-> r.left]

\* One tool result: its content is replaced only when it is a list.
PruneToolResult(tr, budget) ==
    IF IsList(tr.content)
    THEN LET r == FilterContent(tr.content.items, budget)
         IN [new |-> [tr EXCEPT !.content = PyList(r.new)], left |-> r.left]
    ELSE [new |-> tr, left |-> budget]

\* The content items of one message: tool results are pruned, the rest is kept.
RECURSIVE PruneBlocks(_, _)
PruneBlocks(blocks, budget) ==
    IF blocks = <<>> THEN [new |-> <<>>, left |-> budget]
    ELSE LET h == IF IsToolResult(Head(blocks))
                  THEN PruneToolResult(Head(blocks), budget)
                  ELSE [new |-> Head(blocks), left |-> budget]
             r == PruneBlocks(Tail(blocks), h.left)
         IN [new |-> <<h.new>> \o r.new, left |-> r.left]

RECURSIVE PruneMessages(_, _)
PruneMessages(msgs, budget) ==
    IF msgs = <<>> THEN <<>>
    ELSE LET m == Head(msgs)
         IN IF IsList(m.content)
            THEN LET r == PruneBlocks(m.content.items, budget)
                 IN <<[m EXCEPT !.content = PyList(r.new)]>>
                        \o PruneMessages(Tail(msgs), r.left)
            ELSE <<m>> \o PruneMessages(Tail(msgs), budget)

NoneKeep == -1   \* encodes images_to_keep = None

\* The list after the call (the dicts of the list are changed in place).
MaybeFilterToNMostRecentImages(msgs, keep, threshold) ==
    IF keep = NoneKeep THEN msgs
    ELSE PruneMessages(msgs, ImagesToRemove(TotalImages(msgs), keep, threshold))

\* ------------------------------------------------- building a message list

Size(msgs) ==
    Len(msgs)
    + SumSeq([i \in 1..Len(msgs) |-> Len(IterContent(msgs[i].content))])
    + SumSeq([i \in 1..Len(ToolResultBlocks(msgs)) |->
                Len(IterContent(ToolResultBlocks(msgs)[i].content))])

NextId(msgs) == Size(msgs) + 1

LastMsg(msgs) == msgs[Len(msgs)]
LastBlock(msgs) == LastMsg(msgs).content.items[Len(LastMsg(msgs).content.items)]

\* A new message: content a list (empty so far) or a plain string.
AddMessage ==
    /\ prune_calls = 0
    /\ Size(messages) < MaxNodes
    /\ \E c \in {PyList(<<>>), PyStr("t")} :
         messages' = Append(messages, Message("user", c))
    /\ UNCHANGED <<before, pruneVars, filterVars, plannerVars, actorVars, app,
                   uiVars>>

\* A new content item in the last message: a tool result (content a list or a
\* string) or an image block outside any tool result.
AddBlock ==
    /\ prune_calls = 0
    /\ Size(messages) < MaxNodes
    /\ messages # <<>>
    /\ IsList(LastMsg(messages).content)
    /\ \E b \in { ToolResult(PyList(<<>>), NextId(messages)),
                  ToolResult(PyStr("t"), NextId(messages)),
                  Item("image", NextId(messages)) } :
         messages' = [messages EXCEPT ![Len(messages)].content.items = Append(@, b)]
    /\ UNCHANGED <<before, pruneVars, filterVars, plannerVars, actorVars, app,
                   uiVars>>

\* A new item in the content of the last tool result.
AddInner ==
    /\ prune_calls = 0
    /\ Size(messages) < MaxNodes
    /\ messages # <<>>
    /\ IsList(LastMsg(messages).content)
    /\ LastMsg(messages).content.items # <<>>
    /\ IsToolResult(LastBlock(messages))
    /\ IsList(LastBlock(messages).content)
    /\ \E x \in { Item("image", NextId(messages)),
                  Item("text", NextId(messages)) } :
         messages' = [messages EXCEPT
            ![Len(messages)].content.items[Len(LastMsg(messages).content.items)]
                .content.items = Append(@, x)]
    /\ UNCHANGED <<before, pruneVars, filterVars, plannerVars, actorVars, app,
                   uiVars>>

\* One call of _maybe_filter_to_n_most_recent_images on the list; a repeated
\* call uses the same arguments.
PruneImages ==
    /\ prune_calls < 2
    /\ \E keep \in 0..MaxKeep, threshold \in 1..MaxThreshold :
         /\ prune_calls > 0 =>
               keep = images_to_keep /\ threshold = min_removal_threshold
         /\ images_to_keep' = keep
         /\ min_removal_threshold' = threshold
         /\ before' = Append(before, messages)
         /\ messages' = MaybeFilterToNMostRecentImages(messages, keep, threshold)
    /\ prune_calls' = prune_calls + 1
    /\ UNCHANGED <<filterVars, plannerVars, actorVars, app, uiVars>>

NotCalled == [called |-> FALSE, out |-> <<>>]
NoPlanner == [exists |-> FALSE]
NoTurn == [outcome |-> "none"]
NoActor == [exists |-> FALSE]
NoAct == [outcome |-> "none"]
NoSession == [task_no |-> 0, acts |-> 0]
AppIdle == [pc |-> "idle", chatbot_messages |-> <<>>, yields |-> 0,
            loop_msgs |-> <<>>, requests |-> 0, runs |-> 0]

\* ------------------------------------------------- the state dict (app.py)

\* A dict is the function from its keys to their values.
EmptyDict == <<>>
Has(d, key) == key \in DOMAIN d
Put(d, key, value) ==
    [x \in DOMAIN d \cup {key} |-> IF x = key THEN value ELSE d[x]]
\* d.get(key, default)
Get(d, key, default) == IF Has(d, key) THEN d[key] ELSE default
\* if key not in d: d[key] = value
SetDefault(d, key, value) == IF Has(d, key) THEN d ELSE Put(d, key, value)

\* os.getenv of the keys setup_state reads.
Env ==
    [OPENAI_API_KEY |-> "ek", ANTHROPIC_API_KEY |-> "", QWEN_API_KEY |-> "",
     OPENROUTER_API_KEY |-> "", LMSTUDIO_URL |-> "http://localhost:1234/v1"]

OnlyNDefault == 10
MaxPixelsDefault == 1344
MaxPixelsMedium == 1024

\* The key setup_state takes for the planner, by state["planner_provider"].
InitialPlannerKey(d) ==
    IF d["planner_provider"] = "openai" THEN d["openai_api_key"]
    ELSE IF d["planner_provider"] = "anthropic" THEN d["anthropic_api_key"]
    ELSE IF d["planner_provider"] = "qwen" THEN d["qwen_api_key"]
    ELSE IF d["planner_provider"] = "openrouter" THEN d["openrouter_api_key"]
    ELSE IF d["planner_provider"] = "lmstudio" THEN d["lmstudio_url"]
    ELSE ""

\* setup_state(state): every key that is not in the dict gets its default.
SetupState(d) ==
    LET d1 == SetDefault(d, "planner_model", "gpt-4o")
        d2 == SetDefault(d1, "actor_model", "ShowUI")
        d3 == SetDefault(d2, "planner_provider", "openai")
        d4 == SetDefault(d3, "actor_provider", "local")
        d5 == SetDefault(d4, "openai_api_key", Env.OPENAI_API_KEY)
        d6 == SetDefault(d5, "anthropic_api_key", Env.ANTHROPIC_API_KEY)
        d7 == SetDefault(d6, "qwen_api_key", Env.QWEN_API_KEY)
        d8 == SetDefault(d7, "openrouter_api_key", Env.OPENROUTER_API_KEY)
        d9 == SetDefault(d8, "lmstudio_url", Env.LMSTUDIO_URL)
        d10 == SetDefault(d9, "planner_api_key", InitialPlannerKey(d9))
        d11 == SetDefault(d10, "selected_screen", 0)
        d12 == SetDefault(d11, "only_n_most_recent_images", OnlyNDefault)
        d13 == SetDefault(d12, "custom_system_prompt", "NOTE: machine")
        d14 == SetDefault(d13, "max_pixels", MaxPixelsDefault)
    IN SetDefault(d14, "awq_4bit", FALSE)

NoLoopArgs == [passed |-> FALSE]

\* No list, no call made, no planner constructed; the state dict as
\* setup_state leaves it when the interface is built.
InitEmpty ==
    /\ messages = <<>>
    /\ before = <<>>
    /\ images_to_keep = 0
    /\ min_removal_threshold = 1
    /\ prune_calls = 0
    /\ filtered = <<>>
    /\ refiltered = NotCalled
    /\ planner = NoPlanner
    /\ init_call = [called |-> FALSE]
    /\ turn = NoTurn
    /\ calls = 0
    /\ actor = NoActor
    /\ act = NoAct
    /\ act_log = <<>>
    /\ session = NoSession
    /\ app = AppIdle
    /\ state = SetupState(EmptyDict)
    /\ loop_args = NoLoopArgs
    /\ ui_events = 0

InitPrune == InitEmpty

NextPrune == AddMessage \/ AddBlock \/ AddInner \/ PruneImages

SpecPrune == InitPrune /\ [][NextPrune]_vars

\* ------------------------------------------------------- claims on pruning

\* The list as it was when the last call started.
Before == before[Len(before)]

\* The ids of the images inside tool results, in traversal order.
ImageIds(msgs) ==
    Flatten([i \in 1..Len(ToolResultBlocks(msgs)) |->
        LET imgs == SelectSeq(IterContent(ToolResultBlocks(msgs)[i].content), IsImage)
        IN [j \in 1..Len(imgs) |-> imgs[j].id]])

Removed == Len(ImageIds(Before)) - Len(ImageIds(messages))

\* C1: a prune call on a list with N tool-result images removes exactly
\* floor((N - images_to_keep) / min_removal_threshold) * min_removal_threshold
\* images when N > images_to_keep, and none when N <= images_to_keep.
C1_RemovedCount ==
    prune_calls >= 1 =>
        LET N == Len(ImageIds(Before))
        IN IF N > images_to_keep
           THEN Removed = ((N - images_to_keep) \div min_removal_threshold)
                              * min_removal_threshold
           ELSE Removed = 0

\* C1 witness: three images, none to keep, chunks of two: two are removed.
C1_Witness ==
    /\ prune_calls = 1
    /\ Len(ImageIds(Before)) = 3
    /\ images_to_keep = 0
    /\ min_removal_threshold = 2
    /\ Removed = 2

\* C2: the images a prune call removes are the first ones in traversal order:
\* what remains is the rest of the sequence of images, in the same order.
C2_OldestRemoved ==
    prune_calls >= 1 =>
        /\ Removed >= 0
        /\ ImageIds(messages)
             = SubSeq(ImageIds(Before), Removed + 1, Len(ImageIds(Before)))

\* C2 witness: images in two tool results, the call removed some and kept some.
C2_Witness ==
    /\ prune_calls = 1
    /\ Removed >= 1
    /\ ImageIds(messages) # <<>>
    /\ Len(ToolResultBlocks(Before)) >= 2
    /\ Len(ImageIds(<<Before[1]>>)) >= 1
    /\ Len(ImageIds(Before)) >= 3

\* A tool result without its images; anything else as it is.
StripBlock(b) ==
    IF IsToolResult(b) /\ IsList(b.content)
    THEN [b EXCEPT !.content =
            PyList(SelectSeq(b.content.items, LAMBDA x : ~IsImage(x)))]
    ELSE b

StripImages(msgs) ==
    [i \in 1..Len(msgs) |->
        IF IsList(msgs[i].content)
        THEN [msgs[i] EXCEPT !.content =
                PyList([j \in 1..Len(msgs[i].content.items) |->
                            StripBlock(msgs[i].content.items[j])])]
        ELSE msgs[i]]

\* C3: a prune call changes nothing but image items of tool results: with the
\* images of tool results left out, the list is the same before and after.
C3_OnlyImagesRemoved ==
    prune_calls >= 1 => StripImages(messages) = StripImages(Before)

\* C3 witness: a call removed an image from a tool result that also holds a
\* text item, in a message that also holds an image outside any tool result.
C3_Witness ==
    /\ prune_calls = 1
    /\ Removed >= 1
    /\ \E i \in 1..Len(Before) :
          /\ IsList(Before[i].content)
          /\ \E j, l \in 1..Len(Before[i].content.items) :
                /\ IsImage(Before[i].content.items[j])
                /\ IsToolResult(Before[i].content.items[l])
                /\ IsList(Before[i].content.items[l].content)
                /\ \E a, b \in 1..Len(Before[i].content.items[l].content.items) :
                      /\ a < b
                      /\ ~IsImage(Before[i].content.items[l].content.items[a])
                      /\ IsImage(Before[i].content.items[l].content.items[b])

\* C8: a second prune call with the same arguments removes nothing more, and
\* after a call the images left exceed images_to_keep by less than
\* min_removal_threshold.
C8_PruneIdempotent ==
    /\ prune_calls >= 1 =>
          Len(ImageIds(messages)) - images_to_keep < min_removal_threshold
    /\ prune_calls = 2 => messages = Before

\* C8 witness: the first call removed images and left some, the second ran.
C8_Witness ==
    /\ prune_calls = 2
    /\ Len(ImageIds(before[1])) > Len(ImageIds(messages))
    /\ Len(ImageIds(messages)) > images_to_keep

\* ------------------------------------------------ _message_filter_callback

TextBlock(t) == [k |-> "TextBlock", text |-> t]
PyNone == [k |-> "NoneType"]

\* What one turn of the loop body does with one entry: it raises (which ends
\* the whole loop, the try being around the for), or it appends at most one
\* string to filtered_list; msg is the entry afterwards (content that is no
\* list is wrapped into a list in place).
Raised(msg) == [raised |-> TRUE, emit |-> <<>>, msg |-> msg]
Passed(emit, msg) == [raised |-> FALSE, emit |-> emit, msg |-> msg]

\* A slip: the role test forgotten.
FilterStepAnyRole(msg) ==
    IF ~IsDict(msg) THEN Raised(msg)
    ELSE IF msg.content = Absent THEN Raised(msg)
    ELSE LET c == IF IsList(msg.content) THEN msg.content
                  ELSE PyList(<<msg.content>>)
             m2 == [msg EXCEPT !.content = c]
         IN IF c.items = <<>> THEN Raised(msg)
            ELSE IF c.items[1].k = "TextBlock"
                 THEN Passed(<<PyStr(c.items[1].text)>>, m2)
            ELSE IF c.items[1].k = "str" THEN Passed(<<c.items[1]>>, m2)
            ELSE Passed(<<>>, m2)

\* A slip: the content is wrapped into a list whether or not it is one.
FilterStepAlwaysWrap(msg) ==
    IF ~IsDict(msg) THEN Raised(msg)
    ELSE IF msg.role # "user" THEN Passed(<<>>, msg)
    ELSE IF msg.content = Absent THEN Raised(msg)
    ELSE LET c == PyList(<<msg.content>>)
             m2 == [msg EXCEPT !.content = c]
         IN IF c.items[1].k = "TextBlock"
            THEN Passed(<<PyStr(c.items[1].text)>>, m2)
            ELSE IF c.items[1].k = "str" THEN Passed(<<c.items[1]>>, m2)
            ELSE Passed(<<>>, m2)

FilterStep(msg) ==
    IF ~IsDict(msg) THEN Raised(msg)                     \* msg.get: AttributeError
    ELSE IF msg.role # "user" THEN Passed(<<>>, msg)     \* drop message
    ELSE IF msg.content = Absent THEN Raised(msg)        \* msg["content"]: KeyError
    ELSE LET c == IF IsList(msg.content) THEN msg.content
                  ELSE PyList(<<msg.content>>)
             m2 == [msg EXCEPT !.content = c]
         IN IF c.items = <<>> THEN Raised(msg)           \* content[0]: IndexError
            ELSE IF c.items[1].k = "TextBlock"
                 THEN Passed(<<PyStr(c.items[1].text)>>, m2)
            ELSE IF c.items[1].k = "str" THEN Passed(<<c.items[1]>>, m2)
            ELSE Passed(<<>>, m2)                        \* drop message

\* The for loop inside the try: [out |-> filtered_list, log |-> the list after].
RECURSIVE FilterLoop(_)
FilterLoop(msgs) ==
    IF msgs = <<>> THEN [out |-> <<>>, log |-> <<>>]
    ELSE LET st == FilterStep(Head(msgs))
         IN IF st.raised THEN [out |-> <<>>, log |-> msgs]
            ELSE LET r == FilterLoop(Tail(msgs))
                 IN [out |-> st.emit \o r.out, log |-> <<st.msg>> \o r.log]

MessageFilterCallback(msgs) == FilterLoop(msgs)

\* ----------------------------------------------------- the conversation log

Texts == {"a", "b"}

\* The contents a user message is given here.
UserContents ==
    {PyStr(t) : t \in Texts}                          \* a bare string
    \cup {PyList(<<TextBlock(t)>>) : t \in Texts}      \* as process_input appends it
    \cup { PyList(<<PyStr("a")>>),
           PyList(<<TextBlock("a"), Item("image", 0)>>),   \* text, then an image
           PyList(<<Item("image", 0), TextBlock("a")>>),
           PyList(<<ToolResult(PyList(<<Item("image", 0)>>), 0)>>),
           PyList(<<>>),
           PyNone,
           Absent }

LogEntries ==
    {Message("user", c) : c \in UserContents}
    \cup {Message("assistant", c) : c \in {PyStr("a"), PyList(<<TextBlock("b")>>)}}
    \cup {PyStr("a")}                                  \* an entry that is no mapping

AppendEntry ==
    /\ filtered = <<>>
    /\ Len(messages) < MaxLog
    /\ \E e \in LogEntries : messages' = Append(messages, e)
    /\ UNCHANGED <<before, pruneVars, filterVars, plannerVars, actorVars, app,
                   uiVars>>

\* A call of the filter on the log (at most two are followed).
FilterLog ==
    /\ Len(filtered) < 2
    /\ before' = Append(before, messages)
    /\ \E r \in {MessageFilterCallback(messages)} :
          /\ messages' = r.log
          /\ filtered' = Append(filtered, r.out)
    /\ UNCHANGED <<pruneVars, refiltered, plannerVars, actorVars, app, uiVars>>

\* A call of the filter on the list its last call returned.
FilterFiltered ==
    /\ filtered # <<>>
    /\ ~refiltered.called
    /\ refiltered' = [called |-> TRUE,
                      out |-> MessageFilterCallback(filtered[Len(filtered)]).out]
    /\ UNCHANGED <<messages, before, pruneVars, filtered, plannerVars, actorVars, app,
                   uiVars>>

InitFilter == InitEmpty

NextFilter == AppendEntry \/ FilterLog \/ FilterFiltered

SpecFilter == InitFilter /\ [][NextFilter]_vars

\* --------------------------------------------------- APIVLMPlanner.__init__

\* The display names of the table in __init__ and their API identifiers.
ModelNames ==
    {"gpt-4o", "gpt-4o-mini", "qwen2-vl-max",
     "qwen2-vl-2b (ssh)", "qwen2-vl-7b (ssh)", "qwen2.5-vl-7b (ssh)"}

Unsupported == "unsupported"

\* A slip: a name that is not in the table is taken as the API identifier.
ModelIdPassThrough(model) ==
    CASE model = "gpt-4o" -> "gpt-4o-2024-11-20"
      [] model = "gpt-4o-mini" -> "gpt-4o-mini"
      [] model = "qwen2-vl-max" -> "qwen2-vl-max"
      [] model = "qwen2-vl-2b (ssh)" -> "Qwen2-VL-2B-Instruct"
      [] model = "qwen2-vl-7b (ssh)" -> "Qwen2-VL-7B-Instruct"
      [] model = "qwen2.5-vl-7b (ssh)" -> "Qwen2.5-VL-7B-Instruct"
      [] OTHER -> model

\* The if/elif chain on the model name; Unsupported stands for its else.
ModelId(model) ==
    CASE model = "gpt-4o" -> "gpt-4o-2024-11-20"
      [] model = "gpt-4o-mini" -> "gpt-4o-mini"
      [] model = "qwen2-vl-max" -> "qwen2-vl-max"
      [] model = "qwen2-vl-2b (ssh)" -> "Qwen2-VL-2B-Instruct"
      [] model = "qwen2-vl-7b (ssh)" -> "Qwen2-VL-7B-Instruct"
      [] model = "qwen2.5-vl-7b (ssh)" -> "Qwen2.5-VL-7B-Instruct"
      [] OTHER -> Unsupported

MaxTokensDefault == 4096
SelectedScreenDefault == 0

\* total_cost is kept as the token counts its two rates were applied to:
\* openai tokens cost 0.15 / 1000000 each, qwen tokens 0.02 / 7.25 / 1000 each.
ZeroCost == [openai |-> 0, qwen |-> 0]

\* The constructor: [raised, obj]. The raise comes before any assignment.
PlannerInit(model, provider, api_key, only_n) ==
    IF ModelId(model) = Unsupported
    THEN [raised |-> TRUE, obj |-> NoPlanner]
    ELSE [raised |-> FALSE,
          obj |-> [exists |-> TRUE,
                   model |-> ModelId(model),
                   provider |-> provider,
                   api_key |-> api_key,
                   max_tokens |-> MaxTokensDefault,
                   only_n_most_recent_images |-> only_n,
                   selected_screen |-> SelectedScreenDefault,
                   total_token_usage |-> 0,
                   total_cost |-> ZeroCost]]

\* ---------------------------------------------------- strings (api_key)

\* A string is the sequence of its characters.
RECURSIVE Split(_, _)
Split(s, c) ==
    IF s = <<>> THEN << <<>> >>
    ELSE LET r == Split(Tail(s), c)
         IN IF Head(s) = c THEN << <<>> >> \o r
            ELSE << <<Head(s)>> \o r[1] >> \o Tail(r)

Digits == {"8"}
DigitValue(ch) == 8

\* int(s): s must be a non-empty run of digits (of the characters used here).
IntOk(s) == s # <<>> /\ \A i \in 1..Len(s) : s[i] \in Digits

RECURSIVE IntValue(_)
IntValue(s) ==
    IF s = <<>> THEN 0
    ELSE IntValue(SubSeq(s, 1, Len(s) - 1)) * 10 + DigitValue(s[Len(s)])

\* Splitting at the last colon only, as rsplit(":", 1) would.
RECURSIVE LastColon(_)
LastColon(s) ==
    IF s = <<>> THEN 0
    ELSE IF s[Len(s)] = ":" THEN Len(s)
    ELSE LastColon(SubSeq(s, 1, Len(s) - 1))

\* A slip: only the last colon separates host and port.
ParseSSHLastColon(api_key) ==
    LET i == LastColon(api_key)
        port == SubSeq(api_key, i + 1, Len(api_key))
    IN IF i = 0 \/ ~IntOk(port)
       THEN [raised |-> TRUE, host |-> <<>>, port |-> 0]
       ELSE [raised |-> FALSE, host |-> SubSeq(api_key, 1, i - 1),
             port |-> IntValue(port)]

\* ssh_host, ssh_port = api_key.split(":"); ssh_port = int(ssh_port); either
\* ValueError (wrong number of parts, no integer) is raised again.
ParseSSH(api_key) ==
    LET parts == Split(api_key, ":")
    IN IF Len(parts) # 2 \/ ~IntOk(parts[2])
       THEN [raised |-> TRUE, host |-> <<>>, port |-> 0]
       ELSE [raised |-> FALSE, host |-> parts[1], port |-> IntValue(parts[2])]

\* --------------------------------------------------- APIVLMPlanner.__call__

\* `if self.only_n_most_recent_images:`
Truthy(n) == n # NoneKeep /\ n # 0

MinRemovalThresholdDefault == 10

\* message["content"] raises for an entry that is no dict (TypeError) or has
\* no content (KeyError).
PruneRaises(msgs) ==
    \E i \in 1..Len(msgs) : ~IsDict(msgs[i]) \/ msgs[i].content = Absent

ScreenshotPath == PyStr("screenshot.png")

\* The screenshot put before the texts.
PrependScreenshot(planner_messages, screenshot_path) ==
    <<screenshot_path>> \o planner_messages

\* planner_messages.append(screenshot_path)
AppendScreenshot(planner_messages, screenshot_path) ==
    Append(planner_messages, screenshot_path)

\* A dispatch on the provider alone.
BranchByProvider(p) ==
    IF p.provider \in {"openai", "openrouter"} THEN "oai"
    ELSE IF p.provider = "qwen" THEN "qwen"
    ELSE IF p.provider = "ssh" THEN "ssh"
    ELSE "unsupported"

\* The branch of the provider dispatch.
Branch(p) ==
    IF p.provider \in {"openai", "openrouter"} THEN "oai"
    ELSE IF p.provider = "qwen" /\ p.model = "qwen2-vl-max" THEN "qwen"
    ELSE IF p.provider = "ssh" THEN "ssh"
    ELSE "unsupported"

\* A ledger that keeps the count of the last call.
AccountLastCall(p, branch, token_usage) ==
    [p EXCEPT !.total_token_usage = token_usage,
              !.total_cost.openai = IF branch = "oai" THEN token_usage ELSE @,
              !.total_cost.qwen = IF branch = "qwen" THEN token_usage ELSE @]

\* The ledger after an adapter call that returned token_usage.
Account(p, branch, token_usage) ==
    IF branch = "oai"
    THEN [p EXCEPT !.total_token_usage = @ + token_usage,
                   !.total_cost.openai =
                        IF p.provider = "openai" THEN @ + token_usage ELSE @]
    ELSE IF branch = "qwen"
    THEN [p EXCEPT !.total_token_usage = @ + token_usage,
                   !.total_cost.qwen = @ + token_usage]
    ELSE p

\* vlm_plan_str: the value of "Thinking" as it is, every other field as
\* "\nkey: value", in the order of the object's fields.
RECURSIVE PlanStr(_)
PlanStr(fields) ==
    IF fields = <<>> THEN <<>>
    ELSE (IF Head(fields).key = "Thinking"
          THEN <<Head(fields).value>>
          ELSE <<"\n", Head(fields).key, ": ", Head(fields).value>>)
         \o PlanStr(Tail(fields))

\* json.loads(...).items(): the fields of the object as a dict keeps them: one
\* entry per key, at the place of the key's first field, with the value of its
\* last field.
JsonLoads(fields) ==
    LET first == {i \in 1..Len(fields) :
                    \A j \in 1..(i - 1) : fields[j].key # fields[i].key}
        last(key) == CHOOSE i \in 1..Len(fields) :
                        /\ fields[i].key = key
                        /\ \A j \in (i + 1)..Len(fields) : fields[j].key # key
        keys == SelectSeq([i \in 1..Len(fields) |-> i], LAMBDA i : i \in first)
    IN [n \in 1..Len(keys) |->
           [key |-> fields[keys[n]].key,
            value |-> fields[last(fields[keys[n]].key)].value]]

\* The text sent to the observer: f"{colorful_text_vlm}:\n{vlm_plan_str}".
SummaryText(fields) ==
    <<"colorful_text_vlm", ":\n">> \o PlanStr(JsonLoads(fields))

\* extract_data(vlm_response, "json"): the JSON object in the response text,
\* or a failure when there is none.
ExtractData(response) ==
    IF response.json = PyNone
    THEN [raised |-> TRUE, json |-> PyNone]
    ELSE [raised |-> FALSE, json |-> response.json]

Ev(e, what, payload) == [e |-> e, what |-> what, payload |-> payload]

\* A raise that leaves the instance unusable.
TurnRaisedBroken(error, log, p, events, view, dispatched) ==
    [outcome |-> "raised", error |-> error, log |-> log,
     planner |-> [p EXCEPT !.exists = FALSE],
     events |-> events, view |-> view, dispatched |-> dispatched,
     ret |-> PyNone]

TurnRaised(error, log, p, events, view, dispatched) ==
    [outcome |-> "raised", error |-> error, log |-> log, planner |-> p,
     events |-> events, view |-> view, dispatched |-> dispatched,
     ret |-> PyNone]

\* One turn on `log` with the adapter behaving as `adapt` if called: what is
\* returned or raised, the log and the instance afterwards, the calls made to
\* the screenshot service, the observer and the adapters (events, in order),
\* and planner_messages as it is at the end (view).
PlannerCall(p, log, adapt) ==
    LET f == MessageFilterCallback(log)
        n == p.only_n_most_recent_images
    IN
    IF Truthy(n) /\ PruneRaises(f.out)
    THEN TurnRaised("TypeError", f.log, p, <<>>, f.out, FALSE)
    ELSE
    LET pruned == IF Truthy(n)
                  THEN MaybeFilterToNMostRecentImages(
                           f.out, n, MinRemovalThresholdDefault)
                  ELSE f.out
        view == AppendScreenshot(pruned, ScreenshotPath)
        ev1 == << Ev("screenshot", "capture", ScreenshotPath),
                  Ev("observer", "screenshot", ScreenshotPath) >>
        branch == Branch(p)
        ssh == ParseSSH(p.api_key)
    IN
    IF branch = "unsupported"
    THEN TurnRaised("ValueError: Model not supported", f.log, p, ev1, view, TRUE)
    ELSE IF branch = "ssh" /\ ssh.raised
    THEN TurnRaised("ValueError: Invalid SSH connection string",
                    f.log, p, ev1, view, TRUE)
    ELSE
    LET ev2 == Append(ev1,
                  Ev("adapter", branch,
                     [messages |-> view, llm |-> p.model,
                      host |-> IF branch = "ssh" THEN ssh.host ELSE <<>>,
                      port |-> IF branch = "ssh" THEN ssh.port ELSE 0]))
    IN
    IF adapt.raises
    THEN TurnRaised("TransportError", f.log, p, ev2, view, TRUE)
    ELSE
    LET p2 == Account(p, branch, adapt.token_usage)
        x == ExtractData(adapt.response)
    IN
    IF x.raised
    THEN TurnRaised("ParseError", f.log, p2, ev2, view, TRUE)
    ELSE [outcome |-> "returned", error |-> "none", log |-> f.log,
          planner |-> p2,
          events |-> Append(ev2, Ev("observer", "summary", SummaryText(x.json.fields))),
          view |-> view, dispatched |-> TRUE, ret |-> x.json]

\* ------------------------------------------------------ planner: inputs

\* The characters of connection strings: a letter, a digit, the colon.
KeyChars == {"h", "8", ":"}
Keys == UNION {[1..l -> KeyChars] : l \in 0..MaxKeyLen}

\* An API key of a provider that takes one.
SecretKey == <<"h", "h">>

Providers == {"openai", "openrouter", "qwen", "ssh", "anthropic"}

\* Constructor arguments: every model name, in or out of the table, with
\* every provider; connection strings with the ssh provider.
PlannerArgs ==
    [model : ModelNames \cup {"gpt-5-unknown"},
     provider : Providers \ {"ssh"},
     api_key : {SecretKey},
     only_n : {NoneKeep}]
    \cup
    [model : ModelNames \cup {"gpt-5-unknown"},
     provider : {"ssh"},
     api_key : Keys,
     only_n : {NoneKeep}]

JsonObject(fields) == [k |-> "json", fields |-> fields]
Field(key, value) == [key |-> key, value |-> value]

\* Response texts: with a JSON object of both fields in either order, of one
\* field, or none.
Responses ==
    { [json |-> JsonObject(<<Field("Thinking", "t"),
                             Field("Next Action", "CLICK 'ok'")>>)],
      [json |-> JsonObject(<<Field("Next Action", "CLICK 'ok'"),
                             Field("Thinking", "t")>>)],
      [json |-> JsonObject(<<Field("Thinking", "t")>>)],
      [json |-> PyNone] }

\* What an adapter call does: it raises, or returns a response and a count.
AdapterResults ==
    {[raises |-> TRUE, response |-> [json |-> PyNone], token_usage |-> 0]}
    \cup [raises : {FALSE}, response : Responses, token_usage : {0, MaxUsage}]

\* ----------------------------------------------------- planner: actions

\* APIVLMPlanner(model, provider, ..., api_key, ...).
Construct(Args) ==
    /\ ~planner.exists
    /\ \E a \in Args :
         LET r == PlannerInit(a.model, a.provider, a.api_key, a.only_n)
         IN /\ planner' = r.obj
            /\ init_call' = [called |-> TRUE, model |-> a.model,
                             error |-> IF r.raised
                                       THEN "ValueError: Model not supported"
                                       ELSE "none"]
    /\ UNCHANGED <<messages, before, pruneVars, filterVars, turn, calls, actorVars, app,
                   uiVars>>

\* process_input appends the user's text to the log.
AppendUserMessage(T) ==
    /\ Len(messages) < MaxLog
    /\ \E t \in T :
         messages' = Append(messages,
                        Message("user", PyList(<<TextBlock(t)>>)))
    /\ UNCHANGED <<before, pruneVars, filterVars, plannerVars, actorVars, app,
                   uiVars>>

\* The turn made no adapter call.
AdapterNotCalled == [called |-> FALSE]

\* planner(messages): one turn on the log; `adapter` keeps what the adapter
\* call of the turn, if one was made, raised or returned, and `prev` how the
\* turn before this one ended.
Call(Results) ==
    /\ planner.exists
    /\ calls < MaxCalls
    /\ \E adapt \in Results :
         \E r \in {PlannerCall(planner, messages, adapt)} :
            /\ before' = Append(before, messages)
            /\ messages' = r.log
            /\ planner' = r.planner
            /\ turn' = [outcome |-> r.outcome, error |-> r.error,
                        events |-> r.events, view |-> r.view,
                        dispatched |-> r.dispatched, ret |-> r.ret,
                        prev |-> turn.outcome,
                        adapter |-> IF \E i \in 1..Len(r.events) :
                                          r.events[i].e = "adapter"
                                    THEN [called |-> TRUE, result |-> adapt]
                                    ELSE AdapterNotCalled]
    /\ calls' = calls + 1
    /\ UNCHANGED <<pruneVars, filterVars, init_call, actorVars, app, uiVars>>

InitPlanner == InitEmpty

NextPlanner ==
    Construct(PlannerArgs) \/ AppendUserMessage({"a"}) \/ Call(AdapterResults)

SpecPlanner == InitPlanner /\ [][NextPlanner]_vars

\* Turns on logs of every shape, with and without an image budget.
TurnArgs ==
    [model : {"gpt-4o"},
     provider : {"openai"},
     api_key : {SecretKey},
     only_n : {NoneKeep, 0, 2}]

TurnEntries ==
    { Message("user", PyStr("a")),
      Message("assistant", PyList(<<TextBlock("b")>>)),
      Message("user", PyList(<<ToolResult(PyList(<<Item("image", 0)>>), 0)>>)),
      Message("user", PyList(<<>>)) }

\* The adapter raises, returns a decision, or returns text with no JSON.
TurnResults ==
    {a \in AdapterResults :
        \/ a.raises
        \/ a.token_usage = MaxUsage
            /\ a.response.json \in {PyNone,
                                    JsonObject(<<Field("Thinking", "t"),
                                                 Field("Next Action", "CLICK 'ok'")>>)}}

\* The sampling loop appends what the turn produced.
AppendLoopEntry ==
    /\ Len(messages) < MaxLog
    /\ \E e \in TurnEntries : messages' = Append(messages, e)
    /\ UNCHANGED <<before, pruneVars, filterVars, plannerVars, actorVars, app,
                   uiVars>>

InitTurn == InitEmpty

NextTurn ==
    \/ Construct(TurnArgs)
    \/ AppendUserMessage({"a"})
    \/ AppendLoopEntry
    \/ Call(TurnResults)

SpecTurn == InitTurn /\ [][NextTurn]_vars

\* ------------------------------------------------------ ShowUIActorAPI

\* Calls of __call__ on one instance, and tasks one instance serves.
MaxActs == 3
MaxTasks == 2

\* max_tokens and temperature of the request; the size the screenshot is
\* resized to.
ActorMaxTokens == 128
ActorTemperature == 0
TargetWidth == 1920
TargetHeight == 1080

\* ShowUIActorAPI(base_url, model_name, output_callback, ...): the instance.
\* A text is the sequence of its pieces; "\n" is a piece of its own.
ActorInit(model_name, output_callback) ==
    [exists |-> TRUE,
     model_name |-> model_name,
     output_callback |-> output_callback,
     selected_screen |-> 0,
     split |-> "desktop",
     action_history |-> <<>>]

\* A prompt with the previous-actions section whatever the history.
ActorPromptAlways(task, action_history) ==
    <<"Task: ", task, "\n\nPrevious Actions:\n">>
    \o action_history
    \o <<"\n\nGiven the screenshot and the task, provide the next action">>

\* current_prompt: the task, the previous actions if the history is not
\* empty, the closing instruction.
ActorPrompt(task, action_history) ==
    <<"Task: ", task>>
    \o (IF action_history # <<>>
        THEN <<"\n\nPrevious Actions:\n">> \o action_history
        ELSE <<>>)
    \o <<"\n\nGiven the screenshot and the task, provide the next action">>

\* The arguments of client.chat.completions.create.
ActorRequest(a, task) ==
    [model |-> a.model_name,
     system |-> <<"_NAV_SYSTEM", "\n", "_NAV_FORMAT">>,
     image |-> [width |-> TargetWidth, height |-> TargetHeight],
     prompt |-> ActorPrompt(task, a.action_history),
     max_tokens |-> ActorMaxTokens,
     temperature |-> ActorTemperature]

ActRaised(error, a, requests, shown) ==
    [outcome |-> "raised", error |-> error, actor |-> a,
     requests |-> requests, shown |-> shown, ret |-> PyNone]

\* An append that keeps the first line of the output.
AppendFirstLine(action_history, output_text) ==
    action_history
    \o (IF \E i \in 1..Len(output_text) : output_text[i] = "\n"
        THEN SubSeq(output_text, 1,
                    (CHOOSE i \in 1..Len(output_text) :
                        /\ output_text[i] = "\n"
                        /\ \A j \in 1..(i - 1) : output_text[j] # "\n") - 1)
        ELSE output_text)
    \o <<"\n">>

\* self.action_history += output_text + '\n'
AppendAction(action_history, output_text) ==
    action_history \o output_text \o <<"\n">>

\* A record whose content is the parsed action, or None when there is none.
ReturnValidated(output_text) ==
    [content |-> IF output_text # <<>> /\ output_text[1] \in {"{'action': 'ENTER'}", "{'action': 'ESC'}"}
                 THEN <<output_text[1]>> ELSE <<>>,
     role |-> "assistant"]

\* return {'content': output_text, 'role': 'assistant'}
Return(output_text) == [content |-> output_text, role |-> "assistant"]

\* One call on instance `a` with the screenshot service and the provider
\* behaving as `w`: what is returned or raised, the instance afterwards, the
\* requests sent to the provider, whether the observer was shown the
\* screenshot.
ActorCall(a, task, w) ==
    IF ~w.screenshot
    THEN ActRaised("ScreenshotError", a, <<>>, FALSE)
    ELSE
    LET shown == a.output_callback
        requests == <<ActorRequest(a, task)>>
    IN
    IF w.reply.kind = "raises"
    THEN ActRaised("TransportError", a, requests, shown)
    ELSE IF w.reply.kind = "none"
    THEN ActRaised("TypeError", a, requests, shown)
    ELSE [outcome |-> "returned", error |-> "none",
          actor |-> [a EXCEPT !.action_history =
                                 AppendAction(@, w.reply.text)],
          requests |-> requests, shown |-> shown,
          ret |-> Return(w.reply.text)]

\* -------------------------------------------------------- actor: inputs

\* Outputs of the model: none, an action, text that is no action, two lines.
OutputTexts ==
    { <<>>,
      <<"{'action': 'ENTER'}">>,
      <<"sorry">>,
      <<"{'action': 'ESC'}", "\n", "{'action': 'ENTER'}">> }

\* What the screenshot service and the provider do in a call: the capture
\* fails; the request raises; the reply has no content; the reply has a text.
ActorWorlds ==
    {[screenshot |-> FALSE, reply |-> [kind |-> "raises", text |-> <<>>]]}
    \cup [screenshot : {TRUE},
          reply : {[kind |-> "raises", text |-> <<>>],
                   [kind |-> "none", text |-> <<>>]}
                  \cup [kind : {"text"}, text : OutputTexts]]

\* The planner's instruction given to the actor.
Instructions == {"CLICK 'ok'", "ENTER"}

\* ------------------------------------------------------- actor: actions

ConstructActor ==
    /\ ~actor.exists
    /\ \E cb \in BOOLEAN : actor' = ActorInit("showui-2b", cb)
    /\ act' = NoAct
    /\ act_log' = <<>>
    /\ session' = [task_no |-> 1, acts |-> 0]
    /\ UNCHANGED <<messages, before, pruneVars, filterVars, plannerVars, app,
                   uiVars>>

\* A new task begins in the session; the instance is the one of the session.
StartTask ==
    /\ actor.exists
    /\ session.task_no < MaxTasks
    /\ session' = [task_no |-> session.task_no + 1, acts |-> 0]
    /\ UNCHANGED <<messages, before, pruneVars, filterVars, plannerVars,
                   actor, act, act_log, app, uiVars>>

\* actor(messages): one call; `act` keeps the history the call started with
\* and whether it was the first call of its task.
Act ==
    /\ actor.exists
    /\ Len(act_log) < MaxActs
    /\ \E task \in Instructions, w \in ActorWorlds :
         \E r \in {ActorCall(actor, task, w)} :
            /\ actor' = r.actor
            /\ act' = [outcome |-> r.outcome, error |-> r.error,
                       requests |-> r.requests, shown |-> r.shown,
                       ret |-> r.ret, world |-> w, task |-> task,
                       history_before |-> actor.action_history,
                       first_of_task |-> session.acts = 0]
            /\ act_log' = Append(act_log, [outcome |-> r.outcome,
                                           output |-> w.reply.text])
    /\ session' = [session EXCEPT !.acts = @ + 1]
    /\ UNCHANGED <<messages, before, pruneVars, filterVars, plannerVars, app,
                   uiVars>>

InitActor == InitEmpty

NextActor == ConstructActor \/ StartTask \/ Act

SpecActor == InitActor /\ [][NextActor]_vars

\* ------------------------------------------------------- process_input

\* Loop messages one run of process_input reads.
MaxLoopMsgs == 2

\* What a request for the next loop message gives: a message (any value that
\* is not None, an empty one included), the sentinel None, the end of the
\* loop's generator, an exception of the loop.
LoopMessages == {PyStr("m"), PyList(<<>>)}
LoopResults ==
    [kind : {"msg"}, msg : LoopMessages \cup {PyNone}]
    \cup {[kind |-> "end", msg |-> PyNone], [kind |-> "raise", msg |-> PyNone]}

\* The chat pair of a user input, and of a bot message.
UserPair(t) == [user |-> PyStr(t), bot |-> PyNone]
BotPair(t) == [user |-> PyNone, bot |-> PyStr(t)]

\* process_input(user_input, state) up to its first yield: the user message
\* is appended to the log and to the chat view, and the chat view is yielded.
ProcessInputStart(a, t) ==
    [pc |-> "yield_user",
     chatbot_messages |-> Append(a.chatbot_messages, UserPair(t)),
     yields |-> 1, loop_msgs |-> <<>>, requests |-> 0,
     runs |-> a.runs + 1]

\* A loop body that yields on the sentinel and does not leave the loop.
LoopStepNoBreak(a, r) ==
    [a EXCEPT !.requests = @ + 1,
              !.loop_msgs = IF r.kind = "msg" THEN Append(@, r.msg) ELSE @,
              !.yields = IF r.kind = "msg" THEN @ + 1 ELSE @,
              !.pc = IF r.kind = "msg" THEN "yield_loop"
                     ELSE IF r.kind = "end" THEN "done" ELSE "raised"]

\* The generator resumed at the loop: it requests the next loop message; on
\* None it yields the chat view and is at the break, on any other message it
\* yields the chat view and is in the loop; the loop's end ends it.
LoopStep(a, r) ==
    [a EXCEPT !.requests = @ + 1,
              !.loop_msgs = IF r.kind = "msg" THEN Append(@, r.msg) ELSE @,
              !.yields = IF r.kind = "msg" THEN @ + 1 ELSE @,
              !.pc = IF r.kind = "msg"
                     THEN (IF r.msg = PyNone THEN "yield_final"
                           ELSE "yield_loop")
                     ELSE IF r.kind = "end" THEN "done" ELSE "raised"]

\* The arguments of sampling_loop_sync that are read from the state dict.
LoopArgs(d) ==
    [passed |-> TRUE,
     system_prompt_suffix |-> d["custom_system_prompt"],
     planner_model |-> d["planner_model"],
     planner_provider |-> d["planner_provider"],
     actor_model |-> d["actor_model"],
     actor_provider |-> d["actor_provider"],
     api_key |-> d["planner_api_key"],
     only_n_most_recent_images |-> d["only_n_most_recent_images"],
     selected_screen |-> d["selected_screen"],
     showui_max_pixels |-> d["max_pixels"],
     showui_awq_4bit |-> d["awq_4bit"],
     lmstudio_base_url |-> d["lmstudio_url"]]

\* process_input(user_input, state), run to its first yield.
ProcessInput(T) ==
    /\ app.pc \in {"idle", "done", "raised"}
    /\ Len(messages) < MaxLog
    /\ \E t \in T :
         /\ messages' = Append(messages,
                           Message("user", PyList(<<TextBlock(t)>>)))
         /\ app' = ProcessInputStart(app, t)
    /\ state' = SetupState(state)
    /\ UNCHANGED <<before, pruneVars, filterVars, plannerVars, actorVars,
                   loop_args, ui_events>>

\* The generator is resumed at the yield before the loop or in the loop. The
\* loop may have sent the observer a message, which the callback appends to
\* the chat view. The first resumption of a run is where sampling_loop_sync is
\* called, with arguments read from the state dict then.
ResumeLoop(Results) ==
    /\ app.pc \in {"yield_user", "yield_loop"}
    /\ loop_args' = IF app.pc = "yield_user" THEN LoopArgs(state)
                    ELSE loop_args
    /\ \E r \in Results, shown \in BOOLEAN :
         /\ r.kind = "msg" /\ r.msg # PyNone => Len(app.loop_msgs) < MaxLoopMsgs
         /\ app' = LoopStep(
                     [app EXCEPT !.chatbot_messages =
                                    IF shown /\ Len(@) < MaxLog + 1
                                    THEN Append(@, BotPair("b")) ELSE @],
                     r)
    /\ UNCHANGED <<messages, before, pruneVars, filterVars, plannerVars,
                   actorVars, state, ui_events>>

\* The generator is resumed at the yield of the sentinel: break, and the
\* function returns.
ResumeFinal ==
    /\ app.pc = "yield_final"
    /\ app' = [app EXCEPT !.pc = "done"]
    /\ UNCHANGED <<messages, before, pruneVars, filterVars, plannerVars,
                   actorVars, uiVars>>

InitApp == InitEmpty

NextApp == ProcessInput(Texts) \/ ResumeLoop(LoopResults) \/ ResumeFinal

SpecApp == InitApp /\ [][NextApp]_vars

\* The consumer of the generator iterates it to its end.
SpecAppFair == SpecApp /\ WF_vars(ResumeFinal)

\* ------------------------------------------------- the settings handlers

\* Settings handlers run in one session.
MaxUIEvents == 2

\* What a handler did: the dict as it left it, and whether it raised.
Done(d) == [raised |-> FALSE, d |-> d]
HandlerRaised(d) == [raised |-> TRUE, d |-> d]

SSHModels == {"qwen2-vl-2b (ssh)", "qwen2-vl-7b (ssh)", "qwen2.5-vl-7b (ssh)"}
LocalModels == {"qwen2-vl-2b (local)", "qwen2-vl-7b (local)"}
OpenRouterModel == "OpenRouter qwen/qwen2.5-vl-72b-instruct:free"

\* provider_value of update_planner_model, by the model selected.
ProviderValue(model_selection) ==
    IF model_selection = "qwen2-vl-max" THEN "qwen"
    ELSE IF model_selection \in LocalModels THEN "local"
    ELSE IF model_selection \in SSHModels THEN "ssh"
    ELSE IF model_selection \in {"gpt-4o", "gpt-4o-mini"} THEN "openai"
    ELSE IF model_selection = "claude-3-5-sonnet-20241022" THEN "anthropic"
    ELSE IF model_selection = OpenRouterModel THEN "openrouter"
    ELSE Unsupported

\* state["api_key"] of update_planner_model, by the provider chosen.
ApiKeyFor(d, provider_value) ==
    IF provider_value = "openai" THEN Put(d, "api_key", Get(d, "openai_api_key", ""))
    ELSE IF provider_value = "anthropic"
    THEN Put(d, "api_key", Get(d, "anthropic_api_key", ""))
    ELSE IF provider_value = "qwen" THEN Put(d, "api_key", Get(d, "qwen_api_key", ""))
    ELSE IF provider_value = "local" THEN Put(d, "api_key", "")
    ELSE IF provider_value = "openrouter"
    THEN Put(d, "api_key", Get(d, "openrouter_api_key", ""))
    ELSE IF provider_value = "lmstudio"
    THEN Put(d, "api_key", Get(d, "lmstudio_url", "http://localhost:1234/v1"))
    ELSE d

\* The part of update_planner_model before the provider is recorded.
PlannerModelBranch(d, model_selection) ==
    LET d1 == Put(Put(d, "model", model_selection),
                  "planner_model", model_selection)
    IN IF model_selection \in SSHModels
       THEN Put(d1, "api_key",
                IF Has(d1, "planner_api_key") /\ d1["planner_api_key"] # ""
                THEN d1["planner_api_key"] ELSE "")
       ELSE IF model_selection = "claude-3-5-sonnet-20241022"
       THEN Put(d1, "actor_provider", "anthropic")
       ELSE d1

\* A handler that records the provider and the key where process_input and
\* setup_state read them.
UpdatePlannerModelInPlace(d, model_selection) ==
    LET d1 == PlannerModelBranch(d, model_selection)
        provider_value == ProviderValue(model_selection)
    IN IF provider_value = Unsupported THEN HandlerRaised(d1)
       ELSE Done(Put(ApiKeyFor(Put(d1, "planner_provider", provider_value),
                               provider_value),
                     "planner_api_provider", provider_value))

\* update_planner_model(model_selection, state)
UpdatePlannerModel(d, model_selection) ==
    LET d1 == PlannerModelBranch(d, model_selection)
        provider_value == ProviderValue(model_selection)
    IN IF provider_value = Unsupported THEN HandlerRaised(d1)
       ELSE Done(ApiKeyFor(Put(d1, "planner_api_provider", provider_value),
                           provider_value))

\* update_api_key(api_key_value, state)
UpdateApiKey(d, api_key_value) ==
    LET d1 == Put(d, "planner_api_key", api_key_value)
    IN IF ~Has(d1, "planner_provider") THEN HandlerRaised(d1)
       ELSE IF d1["planner_provider"] = "ssh"
       THEN Done(Put(d1, "api_key", api_key_value))
       ELSE IF d1["planner_provider"] = "openrouter"
       THEN Done(Put(Put(d1, "openrouter_api_key", api_key_value),
                     "api_key", api_key_value))
       ELSE IF d1["planner_provider"] = "lmstudio"
       THEN Done(Put(Put(d1, "lmstudio_url", api_key_value),
                     "api_key", api_key_value))
       ELSE Done(d1)

\* update_actor_model, update_only_n_images, update_selected_screen,
\* update_system_prompt_suffix: each writes its one key.
UpdateActorModel(d, actor_model_selection) ==
    Done(Put(d, "actor_model", actor_model_selection))
UpdateOnlyNImages(d, only_n_images_value) ==
    Done(Put(d, "only_n_most_recent_images", only_n_images_value))
UpdateSelectedScreen(d, index) == Done(Put(d, "selected_screen", index))
UpdateSystemPromptSuffix(d, system_prompt_suffix) ==
    Done(Put(d, "custom_system_prompt", system_prompt_suffix))

\* handle_showui_config_change(showui_config_val, state)
HandleShowuiConfigChange(d, showui_config_val) ==
    IF showui_config_val = "Default (Maximum)"
    THEN Done(Put(Put(d, "max_pixels", MaxPixelsDefault), "awq_4bit", FALSE))
    ELSE IF showui_config_val = "Medium"
    THEN Done(Put(Put(d, "max_pixels", MaxPixelsMedium), "awq_4bit", FALSE))
    ELSE IF showui_config_val = "Minimal"
    THEN Done(Put(Put(d, "max_pixels", MaxPixelsMedium), "awq_4bit", TRUE))
    ELSE Done(d)

\* ------------------------------------------------------ handlers: inputs

\* Choices of the planner-model dropdown, one of every branch of the handler,
\* and a value outside them.
PlannerModelChoices ==
    {"gpt-4o", "qwen2-vl-max", "qwen2-vl-2b (local)", "qwen2-vl-2b (ssh)",
     "claude-3-5-sonnet-20241022", OpenRouterModel, "gpt-5-unknown"}
ApiKeyValues == {"", "h:8"}
ShowuiConfigs == {"Default (Maximum)", "Medium", "Minimal", "Custom"}

\* ----------------------------------------------------- handlers: actions

\* A handler ran on the session's dict; what it wrote before a raise stays.
Handle(r) ==
    /\ ui_events < MaxUIEvents
    /\ state' = r.d
    /\ ui_events' = ui_events + 1
    /\ UNCHANGED <<messages, before, pruneVars, filterVars, plannerVars,
                   actorVars, app, loop_args>>

OnPlannerModelChange ==
    \E m \in PlannerModelChoices : Handle(UpdatePlannerModel(state, m))
OnPlannerApiKeyChange ==
    \E v \in ApiKeyValues : Handle(UpdateApiKey(state, v))
OnActorModelChange ==
    \E v \in {"UI-TARS"} : Handle(UpdateActorModel(state, v))
OnOnlyNImagesChange ==
    \E v \in {2} : Handle(UpdateOnlyNImages(state, v))
OnScreenSelectorChange ==
    \E v \in {1} : Handle(UpdateSelectedScreen(state, v))
OnSystemPromptSuffixChange ==
    \E v \in {"s"} : Handle(UpdateSystemPromptSuffix(state, v))
OnShowuiConfigChange ==
    \E v \in ShowuiConfigs : Handle(HandleShowuiConfigChange(state, v))

\* The loop gives the sentinel at once.
SentinelOnly == {r \in LoopResults : r.kind = "msg" /\ r.msg = PyNone}

InitUI == InitEmpty

NextUI ==
    \/ OnPlannerModelChange
    \/ OnPlannerApiKeyChange
    \/ OnActorModelChange
    \/ OnOnlyNImagesChange
    \/ OnScreenSelectorChange
    \/ OnSystemPromptSuffixChange
    \/ OnShowuiConfigChange
    \/ ProcessInput({"a"})
    \/ ResumeLoop(SentinelOnly)
    \/ ResumeFinal

SpecUI == InitUI /\ [][NextUI]_vars

\* ----------------------------------------------------- claims on filtering

RECURSIVE IsSubseq(_, _)
IsSubseq(s, t) ==
    IF s = <<>> THEN TRUE
    ELSE IF t = <<>> THEN FALSE
    ELSE IF Head(s) = Head(t) THEN IsSubseq(Tail(s), Tail(t))
    ELSE IsSubseq(s, Tail(t))

IsText(x) == x.k \in {"str", "TextBlock"}
TextOf(x) == IF x.k = "TextBlock" THEN PyStr(x.text) ELSE x

\* The content of a message as a list of items.
ItemsOf(m) == IF IsList(m.content) THEN m.content.items ELSE <<m.content>>

IsUserMessage(m) == IsDict(m) /\ m.role = "user" /\ m.content # Absent

\* A plain user-authored text message: user role, one or more items, all text.
IsPlainUserText(m) ==
    /\ IsUserMessage(m)
    /\ ItemsOf(m) # <<>>
    /\ \A i \in 1..Len(ItemsOf(m)) : IsText(ItemsOf(m)[i])

\* A user message whose first content item is text.
StartsWithText(m) ==
    /\ IsUserMessage(m)
    /\ ItemsOf(m) # <<>>
    /\ IsText(ItemsOf(m)[1])

\* The first texts of the messages of the log that satisfy Test, in log order.
FirstTexts(msgs, Test(_)) ==
    LET sel == SelectSeq(msgs, Test)
    IN [i \in 1..Len(sel) |-> TextOf(ItemsOf(sel[i])[1])]

LastFiltered == filtered[Len(filtered)]

\* C4 as stated: the filter output has entries only for plain user-authored
\* text messages, in log order (no message carrying non-text content
\* contributes an entry).
C4_OnlyPlainUserText ==
    filtered # <<>> => IsSubseq(LastFiltered, FirstTexts(Before, IsPlainUserText))

\* C4 amended: the filter output has entries only for user messages whose
\* first content item is text, each entry being that first item's text, in log
\* order; items after the first are not looked at.
C4_OnlyUserFirstText ==
    filtered # <<>> => IsSubseq(LastFiltered, FirstTexts(Before, StartsWithText))

\* C4 witness: a log with an assistant text message, a tool-result message and
\* user text; the filter returned the user text alone.
C4_Witness ==
    /\ Len(filtered) = 1
    /\ Len(Before) = 3
    /\ \E i \in 1..3 : IsDict(Before[i]) /\ Before[i].role = "assistant"
    /\ \E i \in 1..3 : IsUserMessage(Before[i]) /\ ~StartsWithText(Before[i])
    /\ LastFiltered = <<PyStr("b")>>

\* C5 as stated: a message whose normalization raises is skipped alone: every
\* user text message of the log, before and after it, is in the filter output.
C5_FailSoftPerMessage ==
    filtered # <<>> => LastFiltered = FirstTexts(Before, StartsWithText)

\* C7 as stated: filter(filter(log)) = filter(log).
C7_FilterOfFilter ==
    refiltered.called => refiltered.out = LastFiltered

\* C7 amended: a second call of the filter on the same log, which the first
\* call may have normalized in place, returns what the first call returned.
C7_SameLogSameResult ==
    Len(filtered) = 2 => filtered[2] = filtered[1]

\* C7 witness: the first call wrapped a string content into a list and
\* returned its text; the second call ran on the changed log.
C7_Witness ==
    /\ Len(filtered) = 2
    /\ filtered[1] # <<>>
    /\ before[1] # before[2]

\* ------------------------------------------------------ claims on the planner

\* C6 as stated: a planner turn leaves the log as it was: every message has
\* the role and the content it had, and the log has the same length.
C6_LogUnchanged ==
    turn.outcome # "none" => messages = Before

\* The adapter calls of the last turn.
AdapterCalls == SelectSeq(turn.events, LAMBDA e : e.e = "adapter")

Colons(s) == Cardinality({i \in 1..Len(s) : s[i] = ":"})
ColonAt(s) == CHOOSE i \in 1..Len(s) : s[i] = ":"

\* One colon, and after it one or more digits.
IsHostPort(s) ==
    /\ Colons(s) = 1
    /\ ColonAt(s) < Len(s)
    /\ \A i \in (ColonAt(s) + 1)..Len(s) : s[i] = "8"

\* The number written with d digits 8.
RECURSIVE Eights(_)
Eights(d) == IF d = 0 THEN 0 ELSE 10 * Eights(d - 1) + 8

\* C9: with the ssh provider the credential is parsed as host:port before
\* dispatch: a string with one colon and an integer after it has the tunnel
\* adapter called once, with the text before the colon as host and the integer
\* as port; any other string (no colon, more than one colon, no integer after
\* the colon) raises the invalid-configuration error and no adapter is called.
C9_SSHCredential ==
    (turn.outcome # "none" /\ planner.provider = "ssh") =>
        IF IsHostPort(planner.api_key)
        THEN /\ Len(AdapterCalls) = 1
             /\ AdapterCalls[1].what = "ssh"
             /\ AdapterCalls[1].payload.host
                  = SubSeq(planner.api_key, 1, ColonAt(planner.api_key) - 1)
             /\ AdapterCalls[1].payload.port
                  = Eights(Len(planner.api_key) - ColonAt(planner.api_key))
             /\ turn.error # "ValueError: Invalid SSH connection string"
        ELSE /\ AdapterCalls = <<>>
             /\ turn.outcome = "raised"
             /\ turn.error = "ValueError: Invalid SSH connection string"

\* C9 witness: "h:8" had the tunnel adapter called with host "h" and port 8.
C9_Witness ==
    /\ turn.outcome = "returned"
    /\ planner.provider = "ssh"
    /\ planner.api_key = <<"h", ":", "8">>
    /\ Len(AdapterCalls) = 1
    /\ AdapterCalls[1].payload.host = <<"h">>
    /\ AdapterCalls[1].payload.port = 8

\* The table of display names and API identifiers, as the claim reads it.
TableId(name) ==
    IF name = "gpt-4o" THEN "gpt-4o-2024-11-20"
    ELSE IF name = "qwen2-vl-2b (ssh)" THEN "Qwen2-VL-2B-Instruct"
    ELSE IF name = "qwen2-vl-7b (ssh)" THEN "Qwen2-VL-7B-Instruct"
    ELSE IF name = "qwen2.5-vl-7b (ssh)" THEN "Qwen2.5-VL-7B-Instruct"
    ELSE name

\* C10: constructing a planner with a model name that is not in the table
\* raises the unsupported-model error and leaves no instance (no field set, no
\* ledger); with a name of the table the instance's model is the table's API
\* identifier, and its ledger starts at zero.
C10_ModelTable ==
    init_call.called =>
        IF init_call.model \in ModelNames
        THEN /\ init_call.error = "none"
             /\ planner.exists
             /\ planner.model = TableId(init_call.model)
        ELSE /\ init_call.error = "ValueError: Model not supported"
             /\ planner = NoPlanner
             /\ turn = NoTurn

\* C10 witness: "gpt-5-unknown" was refused and there is no instance.
C10_Witness ==
    /\ init_call.called
    /\ init_call.model = "gpt-5-unknown"
    /\ init_call.error = "ValueError: Model not supported"
    /\ ~planner.exists

\* The adapter the claim selects for a provider.
AdapterOf(provider) ==
    IF provider \in {"openai", "openrouter"} THEN "oai"
    ELSE IF provider = "qwen" THEN "qwen"
    ELSE IF provider = "ssh" THEN "ssh"
    ELSE "none"

\* C11 as stated: a turn that reaches dispatch calls exactly one adapter, the
\* one of the provider (OpenAI and OpenRouter: OpenAI-compatible, Qwen: vendor,
\* SSH: tunnel); with any other provider it calls none and fails with the
\* unsupported error.
C11_AdapterByProvider ==
    (turn.outcome # "none" /\ turn.dispatched) =>
        IF AdapterOf(planner.provider) # "none"
        THEN /\ Len(AdapterCalls) = 1
             /\ AdapterCalls[1].what = AdapterOf(planner.provider)
        ELSE /\ AdapterCalls = <<>>
             /\ turn.outcome = "raised"
             /\ turn.error = "ValueError: Model not supported"

\* The dispatch has an adapter to call: the provider is OpenAI or OpenRouter,
\* or Qwen with the model qwen2-vl-max, or SSH with a host:port credential.
Dispatchable(p) ==
    \/ p.provider \in {"openai", "openrouter"}
    \/ p.provider = "qwen" /\ p.model = "qwen2-vl-max"
    \/ p.provider = "ssh" /\ IsHostPort(p.api_key)

\* C11: a turn that reaches dispatch calls one adapter, the one of the
\* provider, when the provider is OpenAI or OpenRouter (OpenAI-compatible),
\* Qwen with the model qwen2-vl-max (vendor) or SSH with a host:port
\* credential (tunnel); otherwise it calls no adapter and fails: with the
\* invalid-connection error for SSH, with the unsupported error for any other
\* provider and for Qwen with another model.
C11_AdapterByProviderAndModel ==
    (turn.outcome # "none" /\ turn.dispatched) =>
        IF Dispatchable(planner)
        THEN /\ Len(AdapterCalls) = 1
             /\ AdapterCalls[1].what = AdapterOf(planner.provider)
        ELSE /\ AdapterCalls = <<>>
             /\ turn.outcome = "raised"
             /\ turn.error = IF planner.provider = "ssh"
                             THEN "ValueError: Invalid SSH connection string"
                             ELSE "ValueError: Model not supported"

\* C11 witness: a turn with the Qwen provider and the model qwen2-vl-max had
\* the vendor adapter called, once.
C11_Witness ==
    /\ turn.outcome = "returned"
    /\ planner.provider = "qwen"
    /\ planner.model = "qwen2-vl-max"
    /\ Len(AdapterCalls) = 1
    /\ AdapterCalls[1].what = "qwen"

\* The adapter call of the last turn returned (it was made and did not raise).
AdapterCompleted(t) ==
    /\ t.outcome # "none"
    /\ t.adapter.called
    /\ ~t.adapter.result.raises

\* C12 as stated: every completed adapter call of a turn, whichever the
\* adapter (OpenAI-compatible, vendor Qwen, SSH tunnel), adds the token count
\* it returned to the planner's running token total.
C12_TokensCounted ==
    [][(calls' = calls + 1 /\ AdapterCompleted(turn')) =>
          planner'.total_token_usage
            = planner.total_token_usage + turn'.adapter.result.token_usage]_vars

\* C13: the running token total and the running cost estimate of an instance
\* are zero when it is constructed, and no turn, returning or raising, makes
\* either smaller (adapters return counts of zero or more).
C13_LedgerMonotone ==
    [][/\ (~planner.exists /\ planner'.exists) =>
            /\ planner'.total_token_usage = 0
            /\ planner'.total_cost.openai = 0
            /\ planner'.total_cost.qwen = 0
       /\ (planner.exists /\ planner'.exists) =>
            /\ planner'.total_token_usage >= planner.total_token_usage
            /\ planner'.total_cost.openai >= planner.total_cost.openai
            /\ planner'.total_cost.qwen >= planner.total_cost.qwen]_vars

\* C13 witness: after a turn that counted tokens, a second turn raised and
\* the totals are still what the first turn left.
C13_Witness ==
    /\ calls = 2
    /\ turn.outcome = "raised"
    /\ planner.total_token_usage = MaxUsage
    /\ planner.total_cost.openai = MaxUsage

\* The configuration of an instance: what the constructor was given.
Config(p) ==
    <<p.model, p.provider, p.api_key, p.max_tokens,
      p.only_n_most_recent_images, p.selected_screen>>

\* The observer was sent a decision summary in the turn.
SummarySent(t) ==
    \E i \in 1..Len(t.events) :
        t.events[i].e = "observer" /\ t.events[i].what = "summary"

\* The turn took a screenshot, showed it to the observer and went to dispatch.
RanToDispatch(t) ==
    /\ Len(t.events) >= 2
    /\ t.events[1] = Ev("screenshot", "capture", ScreenshotPath)
    /\ t.events[2] = Ev("observer", "screenshot", ScreenshotPath)
    /\ t.dispatched

\* C16: a turn that fails (unsupported configuration, malformed credential,
\* adapter error, no JSON object in the response) raises: it returns no
\* decision and sends the observer no decision summary, and the instance is
\* left with the configuration it had; the turn after a failed turn runs as
\* any turn does: screenshot, observer, dispatch, and it can return.
C16_NoErrorState ==
    [][(calls' = calls + 1) =>
          /\ turn'.outcome = "raised" =>
                /\ turn'.error # "none"
                /\ turn'.ret = PyNone
                /\ ~SummarySent(turn')
                /\ planner'.exists
                /\ Config(planner') = Config(planner)
          /\ turn.outcome = "raised" => RanToDispatch(turn')]_vars

\* C16 witness: the turn after a raised turn returned a decision.
C16_Witness ==
    /\ calls = 2
    /\ turn.prev = "raised"
    /\ turn.outcome = "returned"
    /\ turn.ret # PyNone
    /\ SummarySent(turn)

\* The object has a field of the key.
HasField(obj, key) ==
    \E i \in 1..Len(obj.fields) : obj.fields[i].key = key

\* C17 as stated: a turn returns a decision only when the extracted object
\* has both the "Thinking" field and the "Next Action" field; an object with
\* either missing is not returned.
C17_BothFieldsRequired ==
    turn.outcome = "returned" =>
        /\ HasField(turn.ret, "Thinking")
        /\ HasField(turn.ret, "Next Action")

\* The decision summaries the observer was sent in the last turn.
Summaries ==
    SelectSeq(turn.events,
              LAMBDA e : e.e = "observer" /\ e.what = "summary")

\* The value of the field "Thinking" of the object.
ThinkingOf(obj) ==
    obj.fields[CHOOSE i \in 1..Len(obj.fields) :
                  obj.fields[i].key = "Thinking"].value

\* One line "key: value" for every field but "Thinking", in field order.
RECURSIVE OtherLines(_)
OtherLines(fields) ==
    IF fields = <<>> THEN <<>>
    ELSE (IF Head(fields).key = "Thinking" THEN <<>>
          ELSE <<"\n", Head(fields).key, ": ", Head(fields).value>>)
         \o OtherLines(Tail(fields))

\* C18 as stated: a turn that returns returns the extracted JSON as it was
\* extracted, and the observer is sent one decision summary: the value of
\* "Thinking" with no key label, and after it one line "key: value" for every
\* other field, in the order of the object's fields.
C18_ReturnAndSummary ==
    turn.outcome = "returned" =>
        /\ turn.ret = turn.adapter.result.response.json
        /\ Len(Summaries) = 1
        /\ HasField(turn.ret, "Thinking")
        /\ Summaries[1].payload
             = <<"colorful_text_vlm", ":\n", ThinkingOf(turn.ret)>>
               \o OtherLines(turn.ret.fields)

\* ---------------------------------------------------- claims on the actor

\* The number of lines of a text: the newlines in it.
Lines(text) == Cardinality({i \in 1..Len(text) : text[i] = "\n"})

\* The calls on the instance that got a model output, in call order.
ActsWithOutput == SelectSeq(act_log, LAMBDA c : c.outcome = "returned")

C15_RawOutputReturned ==
    act.outcome # "none" =>
        /\ Len(act.requests) = (IF act.world.screenshot THEN 1 ELSE 0)
        /\ act.outcome = "returned" =>
              /\ act.world.reply.kind = "text"
              /\ act.ret = [content |-> act.world.reply.text,
                            role |-> "assistant"]
              /\ actor.action_history
                   = act.history_before \o act.ret.content \o <<"\n">>
              /\ Len(act.requests) = 1
        /\ (act.world.screenshot /\ act.world.reply.kind = "text") =>
              act.outcome = "returned"

\* C15 witness: an output that is no action of the schema was returned as it
\* was, after one request.
C15_Witness ==
    /\ act.outcome = "returned"
    /\ act.ret = [content |-> <<"sorry">>, role |-> "assistant"]
    /\ Len(act.requests) = 1
    /\ act.history_before # <<>>

\* The prompt of the request has previous-actions text.
HasPreviousActions(request) ==
    \E i \in 1..Len(request.prompt) :
        request.prompt[i] = "\n\nPrevious Actions:\n"

\* C19 as stated: at the first call of every task the action history is
\* empty and the request has no previous-actions text, also when the instance
\* served a task before.
C19_HistoryResetPerTask ==
    (act.outcome # "none" /\ act.first_of_task) =>
        /\ act.history_before = <<>>
        /\ \A i \in 1..Len(act.requests) : ~HasPreviousActions(act.requests[i])

\* ------------------------------------------------ claims on process_input

\* The sentinel was read in this run.
SentinelRead == \E i \in 1..Len(app.loop_msgs) : app.loop_msgs[i] = PyNone

\* What holds of a run at every point: the user message was appended to the
\* log and the chat view was yielded once before the first request; one yield
\* was made per loop message read, the sentinel included; the sentinel is the
\* last message read, and no request was made after it.
C20_RunShape ==
    app.pc # "idle" =>
        /\ app.pc = "yield_user" =>
              /\ app.yields = 1
              /\ app.requests = 0
              /\ messages # <<>>
              /\ IsPlainUserText(messages[Len(messages)])
              /\ app.chatbot_messages[Len(app.chatbot_messages)].user
                   = TextOf(ItemsOf(messages[Len(messages)])[1])
        /\ app.yields = 1 + Len(app.loop_msgs)
        /\ \A i \in 1..(Len(app.loop_msgs) - 1) : app.loop_msgs[i] # PyNone
        /\ SentinelRead =>
              /\ app.requests = Len(app.loop_msgs)
              /\ app.pc \in {"yield_final", "done"}
        /\ app.pc = "yield_final" => SentinelRead
        /\ app.pc = "yield_loop" => ~SentinelRead

\* C20: process_input appends the user message to the log and yields the chat
\* view once before the loop, yields the chat view once per loop message, and
\* on the first None yields the chat view once more and stops: it requests no
\* loop message after the sentinel, and the run ends.
C20_StopsOnSentinel ==
    /\ []C20_RunShape
    /\ [][SentinelRead => app'.requests = app.requests \/ app'.runs # app.runs]_vars
    /\ (app.pc = "yield_final") ~> (app.pc = "done")

\* C20 witness: a run read a message that is empty but not None, went on, read
\* None, and ended after three yields and two requests.
C20_Witness ==
    /\ app.pc = "done"
    /\ app.loop_msgs = <<PyList(<<>>), PyNone>>
    /\ app.yields = 3
    /\ app.requests = 2

\* ------------------------------------------- claims on the turn's order

\* C21 as stated: in every turn the filter and, with an image budget set, the
\* prune over the filtered view complete without raising, whatever the log
\* and the budget; the filtered texts are the planner's input as they were
\* filtered; the turn goes on to capture the screenshot.
C21_ShapingCompletes ==
    turn.outcome # "none" =>
        /\ turn.error # "TypeError"
        /\ turn.events # <<>>
        /\ turn.events[1] = Ev("screenshot", "capture", ScreenshotPath)
        /\ turn.view
             = Append(MessageFilterCallback(Before).out, ScreenshotPath)

\* The events of the last turn of one kind.
EventsOf(e, what) ==
    SelectSeq(turn.events, LAMBDA x : x.e = e /\ x.what = what)

\* The place of the first event of a kind in the last turn.
PlaceOf(e) ==
    CHOOSE i \in 1..Len(turn.events) :
        /\ turn.events[i].e = e
        /\ \A j \in 1..(i - 1) : turn.events[j].e # e

\* C22: a turn that reaches dispatch has captured one screenshot, then passed
\* it to the observer; its planner input is the filtered texts, in the order
\* the filter gave them, and after them the screenshot's reference as the last
\* item; the adapter, when it is called, is called after the observer got the
\* screenshot and with that input; the decision summary, when it is sent, is
\* sent after the adapter call, as the last thing of the turn.
C22_TurnOrder ==
    (turn.outcome # "none" /\ turn.dispatched) =>
        /\ Len(EventsOf("screenshot", "capture")) = 1
        /\ Len(EventsOf("observer", "screenshot")) = 1
        /\ turn.events[1] = Ev("screenshot", "capture", ScreenshotPath)
        /\ turn.events[2] = Ev("observer", "screenshot", ScreenshotPath)
        /\ turn.view[Len(turn.view)] = ScreenshotPath
        /\ SubSeq(turn.view, 1, Len(turn.view) - 1)
             = MessageFilterCallback(Before).out
        /\ Len(AdapterCalls) <= 1
        /\ AdapterCalls # <<>> =>
              /\ PlaceOf("adapter") = 3
              /\ AdapterCalls[1].payload.messages = turn.view
        /\ Len(Summaries) <= 1
        /\ Summaries # <<>> =>
              /\ AdapterCalls # <<>>
              /\ turn.adapter.called /\ ~turn.adapter.result.raises
              /\ turn.events[Len(turn.events)] = Summaries[1]
              /\ Len(turn.events) = 4

\* C22 witness: a turn on a log of two user texts called the adapter with the
\* two texts and then the screenshot, and sent the summary last.
C22_Witness ==
    /\ turn.outcome = "returned"
    /\ Len(turn.view) = 3
    /\ turn.view[3] = ScreenshotPath
    /\ turn.view[1] = PyStr("a")
    /\ Len(AdapterCalls) = 1
    /\ AdapterCalls[1].payload.messages = turn.view
    /\ turn.events[4].what = "summary"

\* The outputs of the calls before the last one that got a model output, each
\* with its newline, in call order.
EarlierOutputs ==
    LET earlier == SelectSeq(SubSeq(act_log, 1, Len(act_log) - 1),
                             LAMBDA c : c.outcome = "returned")
    IN Flatten([i \in 1..Len(earlier) |-> earlier[i].output \o <<"\n">>])

\* C23: the request of a call has the previous-actions section exactly when
\* the history is not empty at the call. The first call on an instance sends
\* the task and the closing instruction only; a later call sends, after the
\* task, the section with the raw output of every earlier call that got one,
\* each once, in call order, and no section when no earlier call got one.
C23_RequestCarriesHistory ==
    (act.outcome # "none" /\ act.requests # <<>>) =>
        LET prompt == act.requests[1].prompt
            closing == prompt[Len(prompt)]
        IN /\ SubSeq(prompt, 1, 2) = <<"Task: ", act.task>>
           /\ HasPreviousActions(act.requests[1]) <=> act.history_before # <<>>
           /\ act.history_before = EarlierOutputs
           /\ Len(act_log) = 1 => prompt = <<"Task: ", act.task, closing>>
           /\ IF EarlierOutputs = <<>>
              THEN prompt = <<"Task: ", act.task, closing>>
              ELSE prompt = <<"Task: ", act.task, "\n\nPrevious Actions:\n">>
                            \o EarlierOutputs \o <<closing>>

\* C23 witness: the third call on an instance, after one call that failed and
\* one that returned two lines, sent those two lines as previous actions.
C23_Witness ==
    /\ Len(act_log) = 3
    /\ act.requests # <<>>
    /\ \E i \in 1..2 : act_log[i].outcome = "raised"
    /\ \E i \in 1..2 : act_log[i].outcome = "returned"
                       /\ Lines(act_log[i].output) = 1
    /\ HasPreviousActions(act.requests[1])
    /\ Lines(act.history_before) = 2

\* --------------------------------------------- claims on the state dict

\* C24: no settings handler writes state["planner_provider"]. After any
\* handlers the key has the value setup_state gave it, "openai", and that is
\* the provider process_input passes to the sampling loop, with whatever
\* planner model was selected; the provider update_planner_model chose is
\* under "planner_api_provider" and the key it chose under "api_key".
C24_PlannerProviderFixed ==
    /\ Has(state, "planner_provider")
    /\ state["planner_provider"] = "openai"
    /\ loop_args.passed => loop_args.planner_provider = "openai"
    /\ (Has(state, "model") /\ ProviderValue(state["model"]) # Unsupported) =>
          /\ Has(state, "planner_api_provider")
          /\ state["planner_api_provider"] = ProviderValue(state["model"])
          /\ Has(state, "api_key")

\* C24 witness: after qwen2-vl-max was selected, process_input passed that
\* model to the loop with the provider "openai"; "qwen" is under
\* "planner_api_provider".
C24_Witness ==
    /\ loop_args.passed
    /\ loop_args.planner_model = "qwen2-vl-max"
    /\ loop_args.planner_provider = "openai"
    /\ Has(state, "planner_api_provider")
    /\ state["planner_api_provider"] = "qwen"
    /\ ui_events > 0

====
